---- MODULE Spec2Model ----
(***************************************************************************)
(* A* grid search of autonomous_parking.py: heuristic, get_neighbors and   *)
(* astar, run on every small occupancy grid and every (start, goal) pair.  *)
(*                                                                         *)
(* Costs.  The program adds float64 values: steps of 1.0 and sqrt(2), and  *)
(* the octile estimate.  Every value it computes is a multiple of 2^-52    *)
(* below 64, so a float64 v is modelled by the integer v * 2^52, held as   *)
(* two limbs <<hi, lo>> = hi * 2^28 + lo, and every operation rounds its   *)
(* exact result to 53 significant bits, ties to even, as IEEE 754 does.    *)
(* Pop order and the "<" of line 48 therefore see the same rounding the    *)
(* program sees.                                                           *)
(***************************************************************************)
EXTENDS Integers, Sequences, FiniteSets

\* ------------------------------------------------------------------ bounds
Rows == 3
Cols == 3
MaxObstacles == 2

\* ------------------------------------------------------------------- grid
Cells == (0 .. Rows - 1) \X (0 .. Cols - 1)

NoCell == <<-1, -1>>

Range(s) == { s[i] : i \in DOMAIN s }

Abs(n) == IF n < 0 THEN -n ELSE n

Min(a, b) == IF a < b THEN a ELSE b

\* grid.shape bounds test of get_neighbors (line 21)
InBounds(nx, ny) == 0 <= nx /\ nx < Rows /\ 0 <= ny /\ ny < Cols

\* the cells a query starts from: the program's entrance (0, 0) and its
\* parking spot (rows-1, cols-1); the goal is any cell
Starts == { <<0, 0>>, <<Rows - 1, Cols - 1>> }

\* the occupancy grids handed to astar: 0 free, 1 obstacle
Grids == { g \in [Cells -> {0, 1}] :
             Cardinality({ c \in Cells : g[c] = 1 }) <= MaxObstacles }

\* ---------------------------------------------------------------- float64
\* a float64 v >= 0 is <<hi, lo>> with v * 2^52 = hi * Base + lo

Base == 2 ^ 28

Norm(hi, lo) == <<hi + (lo \div Base), lo % Base>>

\* the int n as a float64: n * 2^52 = (n * 2^24) * Base
FromInt(n) == <<n * (2 ^ 24), 0>>

\* spacing of the float64 values around hi * Base, in units of 2^-52:
\* 1 below 2.0, then doubling with every power of two
Quantum(hi) ==
  IF hi < 2 ^ 25 THEN 1
  ELSE IF hi < 2 ^ 26 THEN 2
  ELSE IF hi < 2 ^ 27 THEN 4
  ELSE IF hi < 2 ^ 28 THEN 8
  ELSE IF hi < 2 ^ 29 THEN 16
  ELSE 32

\* hi * Base + lo rounded to the nearest representable value, ties to the
\* even mantissa
Round(hi, lo) ==
  LET n    == Norm(hi, lo)
      q    == Quantum(n[1])
      r    == n[2] % q
      down == n[2] - r
      up   == IF 2 * r < q THEN FALSE
              ELSE IF 2 * r > q THEN TRUE
              ELSE (down \div q) % 2 = 1
  IN  Norm(n[1], IF up THEN down + q ELSE down)

\* (each operation binds its operands once, as a and b)
FAdd(x, y) ==
  CHOOSE r \in { Round(a[1] + b[1], a[2] + b[2]) : a \in {x}, b \in {y} } : TRUE

\* x - y for x >= y
FSub(x, y) ==
  CHOOSE r \in { Round(a[1] - b[1], a[2] - b[2]) : a \in {x}, b \in {y} } : TRUE

\* the float64 x times the int m
FMul(x, m) ==
  CHOOSE r \in { Round(k * a[1], k * a[2]) : a \in {x}, k \in {m} } : TRUE

FLt(x, y) == x[1] < y[1] \/ (x[1] = y[1] /\ x[2] < y[2])

FLe(x, y) == x = y \/ FLt(x, y)

FZero == FromInt(0)

\* np.sqrt(2) = 6369051672525773 * 2^-52
Sqrt2 == <<23726566, 109001677>>

\* np.sqrt of the squared length of one grid step
Sqrt(n) == IF n = 2 THEN Sqrt2 ELSE FromInt(n)

\* line 45: np.sqrt((neighbor[0]-current[0])**2 + (neighbor[1]-current[1])**2)
MoveCost(a, b) ==
  Sqrt((a[1] - b[1]) * (a[1] - b[1]) + (a[2] - b[2]) * (a[2] - b[2]))

\* octile distance: (dx + dy) + (np.sqrt(2) - 2) * min(dx, dy); the negative
\* product is carried as its magnitude (rounding is symmetric in sign)
heuristic(a, b) ==
  LET dx == Abs(a[1] - b[1])
      dy == Abs(a[2] - b[2])
  IN  FSub(FromInt(dx + dy), FMul(FSub(FromInt(2), Sqrt2), Min(dx, dy)))

\* -------------------------------------------------------------- adjacency
\* the nested loops "for dx in [-1,0,1]: for dy in [-1,0,1]", in order
Deltas == << <<-1, -1>>, <<-1, 0>>, <<-1, 1>>,
             << 0, -1>>, << 0, 0>>, << 0, 1>>,
             << 1, -1>>, << 1, 0>>, << 1, 1>> >>

\* get_neighbors with the corner test of lines 23-25 left out
get_neighbors_nocorner(node, g) ==
  LET x == node[1]
      y == node[2]
      Keep(d) == /\ ~(d[1] = 0 /\ d[2] = 0)
                 /\ InBounds(x + d[1], y + d[2])
                 /\ g[<<x + d[1], y + d[2]>>] = 0
      kept == SelectSeq(Deltas, Keep)
  IN  [i \in 1 .. Len(kept) |-> <<x + kept[i][1], y + kept[i][2]>>]

get_neighbors(node, g) ==
  LET x == node[1]
      y == node[2]
      Keep(d) ==
        LET dx == d[1]
            dy == d[2]
        IN  /\ ~(dx = 0 /\ dy = 0)
            /\ InBounds(x + dx, y + dy)
            /\ ~( /\ dx # 0 /\ dy # 0
                  /\ (g[<<x + dx, y>>] = 1 \/ g[<<x, y + dy>>] = 1) )
            /\ g[<<x + dx, y + dy>>] = 0
      kept == SelectSeq(Deltas, Keep)
  IN  [i \in 1 .. Len(kept) |-> <<x + kept[i][1], y + kept[i][2]>>]

\* --------------------------------------------------------------- frontier
\* A frontier entry is the tuple (priority, cost, node).

CellLt(a, b) == a[1] < b[1] \/ (a[1] = b[1] /\ a[2] < b[2])

\* a frontier ordered by priority alone
EntryLtPriorityOnly(e, f) == FLt(e[1], f[1])

\* Python's tuple "<" on (priority, cost, node), which heapq uses
EntryLt(e, f) ==
  \/ FLt(e[1], f[1])
  \/ e[1] = f[1] /\ FLt(e[2], f[2])
  \/ e[1] = f[1] /\ e[2] = f[2] /\ CellLt(e[3], f[3])

\* the entries heappop may return: those no other entry is below
HeapMin(h) == { e \in Range(h) : \A f \in Range(h) : ~EntryLt(f, e) }

\* reading the top of the heap without taking it off
HeapRemoveKeep(h, e) == h

\* what heappop leaves on the heap after returning e
HeapRemove(h, e) ==
  LET i == CHOOSE k \in DOMAIN h : h[k] = e /\ \A j \in 1 .. k - 1 : h[j] # e
  IN  [k \in 1 .. Len(h) - 1 |-> IF k < i THEN h[k] ELSE h[k + 1]]

\* line 48 with the comparison dropped
ImprovesAlways(n, new_cost, cst) == TRUE

\* line 48 with "<=" for "<"
ImprovesOrEqual(n, new_cost, cst) ==
  n \notin DOMAIN cst \/ FLe(new_cost, cst[n])

\* line 48: neighbor not in cost_so_far or new_cost < cost_so_far[neighbor]
Improves(n, new_cost, cst) ==
  n \notin DOMAIN cst \/ FLt(new_cost, cst[n])

\* dict assignment d[k] = v
Put(d, k, v) == [c \in DOMAIN d \cup {k} |-> IF c = k THEN v ELSE d[c]]

EmptyDict == [c \in {} |-> NoCell]

\* lines 62-63 without path.reverse()
NoReverse(s) == s

Reverse(s) == [i \in 1 .. Len(s) |-> s[Len(s) + 1 - i]]

\* ------------------------------------------------------------------ state
VARIABLES grid, start, goal,      \* the arguments of astar
          open_set,               \* the heap: its entries, in push order
          popped,                 \* history: the entries popped so far
          came_from, cost_so_far, \* the two dicts
          current, current_cost,  \* the popped entry / reconstruction cursor
          nbrs,                   \* what the for loop of line 44 has left
          path,                   \* the list built by lines 57-63
          result,                 \* "pending", "None", "path" or "KeyError"
          pc                      \* "loop", "expand", "after", "rebuild", "done"

vars == <<grid, start, goal, open_set, popped, came_from, cost_so_far,
          current, current_cost, nbrs, path, result, pc>>

\* lines 32-36
Init ==
  /\ grid \in Grids
  /\ start \in Starts
  /\ goal \in Cells
  /\ open_set = << <<FZero, FZero, start>> >>
  /\ popped = {}
  /\ came_from = EmptyDict
  /\ cost_so_far = [c \in {start} |-> FZero]
  /\ current = NoCell
  /\ current_cost = FZero
  /\ nbrs = <<>>
  /\ path = <<>>
  /\ result = "pending"
  /\ pc = "loop"

\* lines 38-44: one heappop, the goal test, and the start of the for loop
Pop ==
  /\ pc = "loop"
  /\ open_set # <<>>
  /\ \E e \in HeapMin(open_set) :
       /\ open_set' = HeapRemove(open_set, e)
       /\ popped' = popped \cup {e}
       /\ current' = e[3]
       /\ current_cost' = e[2]
       /\ IF e[3] = goal
            THEN /\ pc' = "after"
                 /\ nbrs' = <<>>
            ELSE /\ nbrs' = get_neighbors(e[3], grid)
                 /\ pc' = IF nbrs' = <<>> THEN "loop" ELSE "expand"
  /\ UNCHANGED <<grid, start, goal, came_from, cost_so_far, path, result>>

\* line 38: the while loop ends on an empty heap
Exhausted ==
  /\ pc = "loop"
  /\ open_set = <<>>
  /\ pc' = "after"
  /\ UNCHANGED <<grid, start, goal, open_set, popped, came_from, cost_so_far,
                 current, current_cost, nbrs, path, result>>

\* lines 44-52: the for body on the next neighbor
Relax ==
  /\ pc = "expand"
  /\ nbrs # <<>>
  /\ \E neighbor \in {Head(nbrs)} :
     \E new_cost \in {FAdd(current_cost, MoveCost(neighbor, current))} :
       IF Improves(neighbor, new_cost, cost_so_far)
         THEN \E priority \in {FAdd(new_cost, heuristic(neighbor, goal))} :
                /\ cost_so_far' = Put(cost_so_far, neighbor, new_cost)
                /\ open_set' = Append(open_set, <<priority, new_cost, neighbor>>)
                /\ came_from' = Put(came_from, neighbor, current)
         ELSE UNCHANGED <<cost_so_far, open_set, came_from>>
  /\ nbrs' = Tail(nbrs)
  /\ pc' = IF nbrs' = <<>> THEN "loop" ELSE "expand"
  /\ UNCHANGED <<grid, start, goal, popped, current, current_cost, path, result>>

\* lines 57-58 entered without the test of lines 54-55
CheckGoalNoTest ==
  /\ pc = "after"
  /\ current' = goal
  /\ pc' = "rebuild"
  /\ UNCHANGED <<grid, start, goal, open_set, popped, came_from, cost_so_far,
                 current_cost, nbrs, path, result>>

\* lines 54-58
CheckGoal ==
  /\ pc = "after"
  /\ IF goal \notin DOMAIN came_from
       THEN /\ result' = "None"
            /\ pc' = "done"
            /\ UNCHANGED current
       ELSE /\ current' = goal
            /\ pc' = "rebuild"
            /\ UNCHANGED result
  /\ UNCHANGED <<grid, start, goal, open_set, popped, came_from, cost_so_far,
                 current_cost, nbrs, path>>

\* lines 59-61: one turn of the reconstruction loop
Rebuild ==
  /\ pc = "rebuild"
  /\ current # start
  /\ path' = Append(path, current)
  /\ IF current \in DOMAIN came_from
       THEN /\ current' = came_from[current]
            /\ UNCHANGED <<pc, result>>
       ELSE /\ result' = "KeyError"
            /\ pc' = "done"
            /\ UNCHANGED current
  /\ UNCHANGED <<grid, start, goal, open_set, popped, came_from, cost_so_far,
                 current_cost, nbrs>>

\* lines 62-65
Return ==
  /\ pc = "rebuild"
  /\ current = start
  /\ path' = Reverse(Append(path, start))
  /\ result' = "path"
  /\ pc' = "done"
  /\ UNCHANGED <<grid, start, goal, open_set, popped, came_from, cost_so_far,
                 current, current_cost, nbrs>>

Next == Pop \/ Exhausted \/ Relax \/ CheckGoal \/ Rebuild \/ Return

Spec == Init /\ [][Next]_vars

\* the call runs to completion: no step of a sequential program is withheld
FairSpec == Spec /\ WF_vars(Next)

\* ============================================================== reference
\* The adjacency rule stated on its own, and an exhaustive shortest-path
\* computation over it; neither uses get_neighbors or astar.

\* q is one legal step away from p
Legal(p, q, g) ==
  LET dx == q[1] - p[1]
      dy == q[2] - p[2]
  IN  /\ dx \in {-1, 0, 1} /\ dy \in {-1, 0, 1} /\ ~(dx = 0 /\ dy = 0)
      /\ InBounds(q[1], q[2])
      /\ g[q] = 0
      /\ (dx # 0 /\ dy # 0) => (g[<<p[1] + dx, p[2]>>] = 0 /\ g[<<p[1], p[2] + dy>>] = 0)

\* Exact costs: the pair <<a, b>> stands for a + b * sqrt(2), a steps of
\* length 1 and b diagonal steps.
Zero == <<0, 0>>

CostAdd(p, q) == <<p[1] + q[1], p[2] + q[2]>>

\* p[1] + p[2]*sqrt(2) < q[1] + q[2]*sqrt(2), decided in integers
CostLt(p, q) ==
  LET u == p[1] - q[1]
      v == q[2] - p[2]
  IN  IF u < 0
        THEN IF v >= 0 THEN TRUE ELSE u * u > 2 * v * v
        ELSE IF v <= 0 THEN FALSE ELSE u * u < 2 * v * v

CostLe(p, q) == p = q \/ CostLt(p, q)

StepCost(a, b) ==
  IF a[1] # b[1] /\ a[2] # b[2] THEN <<0, 1>> ELSE <<1, 0>>

Inf == <<-1, -1>>

CostMin(S) == CHOOSE m \in S : \A o \in S : CostLe(m, o)

\* the cells one legal step away from p
Steps(p, g) ==
  { q \in { <<p[1] + dx, p[2] + dy>> : dx \in {-1, 0, 1}, dy \in {-1, 0, 1} } :
      Legal(p, q, g) }

\* Dijkstra: settled and tentative are sets of <<cell, cost>>; the
\* cheapest tentative cell is settled and its legal steps become tentative
RECURSIVE Dijkstra(_, _, _)
Dijkstra(settled, tentative, g) ==
  IF tentative = {} THEN settled
  ELSE LET m    == CostMin({ x[2] : x \in tentative })
           x    == CHOOSE y \in tentative : y[2] = m
           done == { y[1] : y \in settled } \cup { x[1] }
           new  == { <<q, CostAdd(m, StepCost(x[1], q))>> :
                       q \in Steps(x[1], g) \ done }
       IN  Dijkstra(settled \cup {x},
                    { y \in tentative : y[1] # x[1] } \cup new, g)

\* least cost of a legal path from s to c (Inf: there is none)
RefDist(s, c, g) ==
  LET D == Dijkstra({}, { <<s, Zero>> }, g)
      at == { x \in D : x[1] = c }
  IN  IF at = {} THEN Inf ELSE (CHOOSE x \in at : TRUE)[2]

RECURSIVE PathCost(_)
PathCost(p) ==
  IF Len(p) <= 1 THEN Zero
  ELSE CostAdd(StepCost(p[1], p[2]), PathCost(Tail(p)))

ValidQuery == grid[start] = 0 /\ grid[goal] = 0

Reachable == RefDist(start, goal, grid) # Inf

Returned == pc = "done"

\* cells that were pushed again at a lower cost: an entry for the cell, on
\* the heap or already popped, costs more than cost_so_far records
Repushed ==
  { x[3] : x \in { y \in Range(open_set) \cup popped :
                     y[3] \in DOMAIN cost_so_far /\ FLt(cost_so_far[y[3]], y[2]) } }

\* =================================================================== claims

\* C1: on a valid query whose goal is reachable, astar returns a path whose
\* total step cost equals the least cost of any legal path from start to goal.
C1_Optimality ==
  (Returned /\ ValidQuery /\ Reachable) =>
     /\ result = "path"
     /\ PathCost(path) = RefDist(start, goal, grid)

\* The same statement for start # goal (the case C1 fails on is start = goal).
OptimalWhenDistinct ==
  (Returned /\ ValidQuery /\ Reachable /\ start # goal) =>
     /\ result = "path"
     /\ PathCost(path) = RefDist(start, goal, grid)

\* C2: astar(c, c, grid) on a free cell c returns the one-cell path [c].
C2_TrivialPath ==
  (Returned /\ start = goal /\ grid[start] = 0) =>
     (result = "path" /\ path = <<start>>)

\* C3: a query whose start or goal is an obstacle ends in an invalid-query
\* outcome before anything is popped: nothing is ever popped and the result
\* is neither None nor a path.
C3_InvalidFailFast ==
  ~ValidQuery => (popped = {} /\ result \notin {"None", "path"})

\* C4: on a valid query whose goal is unreachable, astar returns None (no
\* path, no empty list), and does so with the frontier exhausted.
C4_NoPathSignal ==
  (Returned /\ ValidQuery /\ ~Reachable) =>
     (result = "None" /\ path = <<>> /\ open_set = <<>>)

C4_Witness ==
  /\ Returned /\ ValidQuery /\ ~Reachable /\ result = "None"
  /\ Cardinality(popped) > 1

\* C5: a returned path starts at start, ends at goal, and each consecutive
\* pair is a get_neighbors transition: a legal step.
C5_PathWellFormed ==
  (Returned /\ result = "path") =>
     /\ Len(path) >= 1
     /\ path[1] = start
     /\ path[Len(path)] = goal
     /\ \A i \in 1 .. Len(path) - 1 :
          /\ path[i + 1] \in Range(get_neighbors(path[i], grid))
          /\ Legal(path[i], path[i + 1], grid)

C5_Witness ==
  /\ Returned /\ result = "path" /\ Len(path) >= 4
  /\ \E i \in 1 .. Len(path) - 1 : StepCost(path[i], path[i + 1]) = <<0, 1>>

\* C6: get_neighbors((x, y), grid) holds (x+dx, y+dy) exactly when that cell
\* is in bounds, free, and, for a diagonal move, neither pass-through cell
\* is an obstacle; and it holds nothing else.  (The grid is never written,
\* so every cell of it is examined once per run, before the first pop.)
C6_Adjacency ==
 popped = {} =>
  \A c \in Cells :
   LET nb == Range(get_neighbors(c, grid))
   IN
    /\ \A d \in ({-1, 0, 1} \X {-1, 0, 1}) \ {<<0, 0>>} :
         LET q == <<c[1] + d[1], c[2] + d[2]>>
         IN  (q \in nb) <=>
               /\ InBounds(q[1], q[2])
               /\ grid[q] = 0
               /\ (d[1] # 0 /\ d[2] # 0) =>
                    (grid[<<c[1] + d[1], c[2]>>] # 1 /\ grid[<<c[1], c[2] + d[2]>>] # 1)
    /\ \A q \in nb :
         q # c /\ Abs(q[1] - c[1]) <= 1 /\ Abs(q[2] - c[2]) <= 1

\* a cell is being expanded whose diagonal neighbour is free but cut off by
\* a blocked pass-through cell
C6_Witness ==
  /\ pc = "expand"
  /\ \E dx \in {-1, 1}, dy \in {-1, 1} :
       LET q == <<current[1] + dx, current[2] + dy>>
       IN  /\ InBounds(q[1], q[2])
           /\ grid[q] = 0
           /\ (grid[<<current[1] + dx, current[2]>>] = 1
                 \/ grid[<<current[1], current[2] + dy>>] = 1)
           /\ q \notin Range(get_neighbors(current, grid))

\* C7: the entry a pop returns is fixed by the frontier's ordering: among
\* the entries on the heap exactly one is least, also when several share the
\* least priority, so a run is a function of (start, goal, grid).
C7_Deterministic ==
  open_set # <<>> => Cardinality(HeapMin(open_set)) = 1

\* several entries share the least priority and one of them is popped next
C7_Witness ==
  /\ pc = "loop"
  /\ \E e \in HeapMin(open_set) :
       \E f \in Range(open_set) : f # e /\ f[1] = e[1]

\* C8: on a valid query the call returns: the main loop stops and so does
\* the reconstruction loop.
C8_Termination == ValidQuery ~> Returned

\* a valid query has returned after pushing some cell more than once
C8_Witness == Returned /\ ValidQuery /\ Repushed # {}

\* C9: no key leaves cost_so_far, a recorded cost changes only to a strictly
\* lower one, cost_so_far[start] stays 0, and a push happens exactly with an
\* insert or strict decrease of the pushed cell's cost, to the pushed cost.
C9_Step ==
  /\ DOMAIN cost_so_far \subseteq DOMAIN cost_so_far'
  /\ \A c \in DOMAIN cost_so_far :
       cost_so_far'[c] = cost_so_far[c] \/ FLt(cost_so_far'[c], cost_so_far[c])
  /\ cost_so_far'[start] = FZero
  /\ Len(open_set') <= Len(open_set) + 1
  /\ Len(open_set') = Len(open_set) + 1 =>
       LET e == open_set'[Len(open_set')]
       IN  /\ e[3] \in DOMAIN cost_so_far'
           /\ cost_so_far'[e[3]] = e[2]
           /\ (e[3] \notin DOMAIN cost_so_far
                 \/ FLt(cost_so_far'[e[3]], cost_so_far[e[3]]))
  /\ cost_so_far' # cost_so_far => Len(open_set') = Len(open_set) + 1

C9_CostTableMonotone == [][C9_Step]_vars

\* a cell's recorded cost has been lowered after its first discovery
C9_Witness == pc = "expand" /\ Repushed # {}

\* the cell the predecessor chain of n reaches in at most k links
RECURSIVE ChainEnd(_, _)
ChainEnd(n, k) ==
  IF k = 0 \/ n \notin DOMAIN came_from THEN n ELSE ChainEnd(came_from[n], k - 1)

\* C10: on a valid query with start # goal, came_from has exactly the keys
\* of cost_so_far other than start; each n in it is a neighbour of its
\* predecessor and costs at least the predecessor's cost plus the step, so
\* strictly more; every predecessor chain ends at start.
C10_Predecessors ==
  (ValidQuery /\ start # goal) =>
     /\ DOMAIN came_from = DOMAIN cost_so_far \ {start}
     /\ \A n \in DOMAIN came_from :
          LET p == came_from[n]
          IN  /\ p \in DOMAIN cost_so_far
              /\ Legal(p, n, grid)
              /\ FLe(FAdd(cost_so_far[p], MoveCost(p, n)), cost_so_far[n])
              /\ FLt(cost_so_far[p], cost_so_far[n])
              /\ ChainEnd(n, Cardinality(Cells)) = start

\* a cell's predecessor has been overwritten by a cheaper one
C10_Witness ==
  /\ ValidQuery /\ start # goal /\ pc = "loop"
  /\ \E n \in Repushed : n \in DOMAIN came_from

TypeOK ==
  /\ pc \in {"loop", "expand", "after", "rebuild", "done"}
  /\ result \in {"pending", "None", "path", "KeyError"}
  /\ result = "pending" <=> pc # "done"
====
